---- MODULE Spec2Model ----
(***************************************************************************)
(* Model of the Anchor SDK client core.                                    *)
(*                                                                         *)
(*  Part I  : DefaultPolicyPack (typescript-sdk/src/policies.ts).  Objects *)
(*            and arrays live on a heap, because the constructor keeps the *)
(*            caller's config object by reference and getConfig hands out  *)
(*            array references, never copies.                              *)
(*  Part II : the request layer `send` (workspace injection, retry with    *)
(*            backoff, error mapping).                                     *)
(***************************************************************************)
EXTENDS Integers, Sequences, FiniteSets, TLC

(***************************************************************************)
(* Bounds of the model.                                                    *)
(***************************************************************************)
MaxSteps == 6           \* operations the caller of DefaultPolicyPack performs
MaxAttemptsCeil == 3    \* largest attempt limit a client is configured with

(***************************************************************************)
(* JavaScript values.  Every kind of value is a record with its own field  *)
(* name, so values of different kinds are comparable and never equal.      *)
(***************************************************************************)
Undefined == [undef |-> TRUE]
Null == [null |-> TRUE]
Num(n) == [num |-> n]
Bool(b) == [bool |-> b]
Ref(a) == [ref |-> a]
List(s) == [list |-> s]

\* Array.isArray on a live value: arrays are the only values held by reference
IsArray(v) == "ref" \in DOMAIN v

\* the heap address of DEFAULT_POLICY_CONFIG.requireApprovalFor
DefaultArr == 1

\* the array literal of DEFAULT_POLICY_CONFIG.requireApprovalFor
DefaultApprovalList == <<"delete", "update", "export">>

\* `as const` is erased at compile time: the object holds an ordinary array
DEFAULT_POLICY_CONFIG ==
    [ maxQuerySize       |-> Num(1000),
      requireApprovalFor |-> Ref(DefaultArr),
      blockPii           |-> Bool(TRUE),
      blockSecrets       |-> Bool(TRUE) ]

\* interface DefaultPolicyPackConfig; an absent optional field reads as undefined
ConfigFields == {"allowedDomains", "maxQuerySize", "requireApprovalFor", "blockPii", "blockSecrets"}

\* the argument default `config = {}`
EmptyConfig == [f \in ConfigFields |-> Undefined]

\* values a caller passes for maxQuerySize
QuerySizes == {0, 500}

\* contents of the array literals a caller writes
InitLists == { <<>>, <<"a.com">> }

\* the element a caller pushes onto an array it holds
PushVal == "x"

VARIABLES
    heap,       \* heap[a] = content of the array at address a; heap[DefaultArr] is the module default
    configs,    \* configs[c] = the config object at address c (list fields hold array refs)
    owned,      \* addresses of the config objects the caller holds
    reach,      \* addresses of the arrays the caller holds
    packs,      \* packs[p] = [config |-> address kept in this.config, built |-> its value at construction]
    held,       \* the policies object returned last, as the caller now holds it
    calls,      \* the getConfig calls made, values as of the return: cfg = this.config,
                \* built = the config at construction, out = the result,
                \* base = what a pack without overrides returned at that moment
    nsteps      \* number of operations the caller has performed

pvars == <<heap, configs, owned, reach, packs, held, calls, nsteps>>

VARIABLES
    client,     \* ClientConfig: defaultWorkspaceId, maxAttempts, baseDelay, backoffMultiplier
    pc,         \* where send is: "idle", "attempt", "backoff", "done"
    req,        \* the RequestSpec of the call in progress
    sent,       \* the requests transmitted by this call, one per attempt
    responses,  \* the outcome of each attempt of this call
    delays,     \* the retry delays this call has slept
    warnings,   \* warnings this call has emitted
    result      \* what the call returned or raised

svars == <<client, pc, req, sent, responses, delays, warnings, result>>

vars == <<pvars, svars>>

(***************************************************************************)
(* Objects with string keys (Record<string, any>).                         *)
(***************************************************************************)
EmptyObj == [k \in {} |-> Undefined]

\* obj[k] = v
Put(obj, k, v) == [x \in (DOMAIN obj) \cup {k} |-> IF x = k THEN v ELSE obj[x]]

\* delete obj[k]
Del(obj, k) == [x \in (DOMAIN obj) \ {k} |-> obj[x]]

\* a ?? b
Coalesce(a, b) == IF a = Undefined \/ a = Null THEN b ELSE a

\* the content behind a live value: arrays are read through the heap h
Val(v, h) == IF IsArray(v) THEN List(h[v.ref]) ELSE v

\* an object with every value read through the heap h
ObjVal(obj, h) == [k \in DOMAIN obj |-> Val(obj[k], h)]

\* a getConfig result with every value read through the heap h
ResultVal(res, h) == [policies |-> ObjVal(res.policies, h)]

(***************************************************************************)
(* Faulty variants of getConfig, used to show that the properties below    *)
(* depend on the code.                                                     *)
(***************************************************************************)
\* tests `config.allowedDomains !== undefined` instead of Array.isArray
getConfig_NullDomains(config) ==
    LET p0 == EmptyObj
        p1 == IF config.allowedDomains # Undefined
                 THEN Put(p0, "allowed_domains", config.allowedDomains)
                 ELSE p0
        maxQuerySize ==
              IF config.maxQuerySize = Undefined
                 THEN DEFAULT_POLICY_CONFIG.maxQuerySize
                 ELSE config.maxQuerySize
        p2 == IF maxQuerySize # Null
                 THEN Put(p1, "max_query_size", maxQuerySize)
                 ELSE p1
        requireApprovalFor ==
              IF config.requireApprovalFor = Undefined
                 THEN DEFAULT_POLICY_CONFIG.requireApprovalFor
                 ELSE config.requireApprovalFor
        p3 == IF requireApprovalFor # Null
                 THEN Put(p2, "require_approval_for", requireApprovalFor)
                 ELSE p2
        p4 == Put(p3, "block_pii", Coalesce(config.blockPii, DEFAULT_POLICY_CONFIG.blockPii))
        p5 == Put(p4, "block_secrets", Coalesce(config.blockSecrets, DEFAULT_POLICY_CONFIG.blockSecrets))
    IN  [policies |-> p5]

\* reads config.blockSecrets where block_pii is computed
getConfig_SwappedFlag(config) ==
    LET p0 == EmptyObj
        p1 == IF IsArray(config.allowedDomains)
                 THEN Put(p0, "allowed_domains", config.allowedDomains)
                 ELSE p0
        maxQuerySize ==
              IF config.maxQuerySize = Undefined
                 THEN DEFAULT_POLICY_CONFIG.maxQuerySize
                 ELSE config.maxQuerySize
        p2 == IF maxQuerySize # Null
                 THEN Put(p1, "max_query_size", maxQuerySize)
                 ELSE p1
        requireApprovalFor ==
              IF config.requireApprovalFor = Undefined
                 THEN DEFAULT_POLICY_CONFIG.requireApprovalFor
                 ELSE config.requireApprovalFor
        p3 == IF requireApprovalFor # Null
                 THEN Put(p2, "require_approval_for", requireApprovalFor)
                 ELSE p2
        p4 == Put(p3, "block_pii", Coalesce(config.blockSecrets, DEFAULT_POLICY_CONFIG.blockPii))
        p5 == Put(p4, "block_secrets", Coalesce(config.blockSecrets, DEFAULT_POLICY_CONFIG.blockSecrets))
    IN  [policies |-> p5]

(***************************************************************************)
(* DefaultPolicyPack.getConfig, statement by statement.                    *)
(***************************************************************************)
getConfig(config) ==
    LET p0 == EmptyObj
        p1 == IF IsArray(config.allowedDomains)
                 THEN Put(p0, "allowed_domains", config.allowedDomains)
                 ELSE p0
        maxQuerySize ==
              IF config.maxQuerySize = Undefined
                 THEN DEFAULT_POLICY_CONFIG.maxQuerySize
                 ELSE config.maxQuerySize
        p2 == IF maxQuerySize # Null
                 THEN Put(p1, "max_query_size", maxQuerySize)
                 ELSE p1
        requireApprovalFor ==
              IF config.requireApprovalFor = Undefined
                 THEN DEFAULT_POLICY_CONFIG.requireApprovalFor
                 ELSE config.requireApprovalFor
        p3 == IF requireApprovalFor # Null
                 THEN Put(p2, "require_approval_for", requireApprovalFor)
                 ELSE p2
        p4 == Put(p3, "block_pii", Coalesce(config.blockPii, DEFAULT_POLICY_CONFIG.blockPii))
        p5 == Put(p4, "block_secrets", Coalesce(config.blockSecrets, DEFAULT_POLICY_CONFIG.blockSecrets))
    IN  [policies |-> p5]

\* one more operation of the caller
Step == nsteps < MaxSteps /\ nsteps' = nsteps + 1

PInit ==
    /\ heap = <<DefaultApprovalList>>
    /\ configs = <<>>
    /\ owned = {}
    /\ reach = {}
    /\ packs = <<>>
    /\ held = EmptyObj
    /\ calls = {}
    /\ nsteps = 0

\* the caller writes an array literal
NewArray ==
    /\ Step
    /\ \E s \in InitLists :
          /\ heap' = Append(heap, s)
          /\ reach' = reach \cup {Len(heap) + 1}
    /\ UNCHANGED <<configs, owned, packs, held, calls>>
    /\ UNCHANGED svars

ListChoices == {Undefined, Null} \cup {Ref(a) : a \in reach}
SizeChoices == {Undefined, Null} \cup {Num(n) : n \in QuerySizes}
FlagChoices == {Undefined, Bool(TRUE), Bool(FALSE)}

\* what the caller may store in field f of a config
FieldChoices(f) ==
    CASE f \in {"allowedDomains", "requireApprovalFor"} -> ListChoices
      [] f = "maxQuerySize" -> SizeChoices
      [] OTHER -> FlagChoices

\* the caller creates a config object; SetConfigField assigns its fields
NewConfig ==
    /\ Step
    /\ configs' = Append(configs, EmptyConfig)
    /\ owned' = owned \cup {Len(configs) + 1}
    /\ UNCHANGED <<heap, reach, packs, held, calls>>
    /\ UNCHANGED svars

\* new DefaultPolicyPack(config): this.config = config, no copy
Construct ==
    /\ Step
    /\ \E c \in owned :
          packs' = Append(packs, [config |-> c, built |-> ObjVal(configs[c], heap)])
    /\ UNCHANGED <<heap, configs, owned, reach, held, calls>>
    /\ UNCHANGED svars

\* new DefaultPolicyPack(): the default argument is a fresh {} only the pack holds
ConstructDefault ==
    /\ Step
    /\ configs' = Append(configs, EmptyConfig)
    /\ packs' = Append(packs, [config |-> Len(configs) + 1, built |-> EmptyConfig])
    /\ UNCHANGED <<heap, owned, reach, held, calls>>
    /\ UNCHANGED svars

\* pack.getConfig(): the caller receives { policies } and with it every array in it
CallGetConfig ==
    /\ Step
    /\ \E p \in 1..Len(packs) :
          LET config == configs[packs[p].config]
              returned == getConfig(config)
              policies == returned.policies
          IN  /\ held' = policies
              /\ reach' = reach \cup {policies[k].ref : k \in {x \in DOMAIN policies : IsArray(policies[x])}}
              /\ calls' = calls \cup {[ cfg   |-> ObjVal(config, heap),
                                        built |-> packs[p].built,
                                        out   |-> ResultVal(returned, heap),
                                        base  |-> ResultVal(getConfig(EmptyConfig), heap) ]}
    /\ UNCHANGED <<heap, configs, owned, packs>>
    /\ UNCHANGED svars

\* the caller pushes onto an array it holds
PushArray ==
    /\ Step
    /\ \E a \in reach :
          heap' = [heap EXCEPT ![a] = Append(@, PushVal)]
    /\ UNCHANGED <<configs, owned, reach, packs, held, calls>>
    /\ UNCHANGED svars

\* the caller pops an array it holds
PopArray ==
    /\ Step
    /\ \E a \in reach :
          /\ Len(heap[a]) > 0
          /\ heap' = [heap EXCEPT ![a] = SubSeq(@, 1, Len(@) - 1)]
    /\ UNCHANGED <<configs, owned, reach, packs, held, calls>>
    /\ UNCHANGED svars

\* the caller assigns a field of a config object it holds
SetConfigField ==
    /\ Step
    /\ \E c \in owned, f \in ConfigFields :
          \E v \in FieldChoices(f) \ {configs[c][f]} :
             configs' = [configs EXCEPT ![c][f] = v]
    /\ UNCHANGED <<heap, owned, reach, packs, held, calls>>
    /\ UNCHANGED svars

\* the caller deletes a key of the policies object it was handed
DeletePolicyKey ==
    /\ Step
    /\ \E k \in DOMAIN held : held' = Del(held, k)
    /\ UNCHANGED <<heap, configs, owned, reach, packs, calls>>
    /\ UNCHANGED svars

\* the caller overwrites a key of the policies object it was handed
SetPolicyKey ==
    /\ Step
    /\ \E k \in DOMAIN held :
          /\ held[k] # Bool(FALSE)
          /\ held' = Put(held, k, Bool(FALSE))
    /\ UNCHANGED <<heap, configs, owned, reach, packs, calls>>
    /\ UNCHANGED svars

PNext ==
    \/ NewArray
    \/ NewConfig
    \/ Construct
    \/ ConstructDefault
    \/ CallGetConfig
    \/ PushArray
    \/ PopArray
    \/ SetConfigField
    \/ DeletePolicyKey
    \/ SetPolicyKey


(***************************************************************************)
(* Part II.  The request layer: send(spec).                                *)
(*                                                                         *)
(* One call at a time is modelled: calls share nothing but the immutable   *)
(* ClientConfig.  A call is made without a deadline or cancellation signal.*)
(* A transport failure (network unreachable, request timeout) is the       *)
(* response with status 0; retryAfter = 0 means that no hint was sent.     *)
(***************************************************************************)
Methods == {"GET", "POST", "PUT", "PATCH", "DELETE"}

\* the verbs that carry the workspace id in the body
BodyMethods == {"POST", "PUT", "PATCH"}

\* no workspace id
Absent == "absent"

\* an absent body, and a body with the given fields
NoBody == [present |-> FALSE]
Body(fields) == [present |-> TRUE, fields |-> fields]

\* the bodies, query parameters and overrides callers pass
CallerBodies == {NoBody, Body([name |-> "bot"]), Body([name |-> "bot", workspaceId |-> "ws-body"])}
CallerQueries == {EmptyObj, [limit |-> "10"]}
Overrides == {Absent, "ws-override"}

\* the client-level defaults, base delays and backoff multipliers clients are built with
DefaultWorkspaces == {Absent, "ws-default"}
BaseDelays == {1}
Multipliers == {2}

\* the retry-after hints a server sends with a 429
Hints == {1, 5}

Response(status, retryAfter, policy) ==
    [status |-> status, retryAfter |-> retryAfter, policy |-> policy]

\* what an attempt can end in
Responses ==
    {Response(st, 0, FALSE) : st \in {0, 200, 401, 404, 422, 500}}
        \cup {Response(403, 0, TRUE)}
        \cup {Response(429, h, FALSE) : h \in Hints \cup {0}}

\* spec.workspaceOverride ?? clientConfig.defaultWorkspaceId
Resolve_DefaultFirst(override, default) == IF default # Absent THEN default ELSE override

Resolve(override, default) == IF override # Absent THEN override ELSE default

\* workspaceId merged into the body; a field the body already has wins
InjectBody(body, ws) ==
    IF ~body.present THEN Body([workspaceId |-> ws])
    ELSE IF "workspaceId" \in DOMAIN body.fields THEN body
    ELSE Body(Put(body.fields, "workspaceId", ws))

\* workspaceId appended as a query parameter
InjectQuery(query, ws) == Put(query, "workspaceId", ws)

\* injects even when no workspace id was resolved
Outgoing_InjectAbsent(spec, ws) ==
    IF spec.method \in BodyMethods
    THEN [method |-> spec.method, body |-> InjectBody(spec.body, ws), query |-> spec.query]
    ELSE [method |-> spec.method, body |-> spec.body, query |-> InjectQuery(spec.query, ws)]

\* the request put on the wire for spec, given the resolved workspace id
Outgoing(spec, ws) ==
    IF ws = Absent
    THEN [method |-> spec.method, body |-> spec.body, query |-> spec.query]
    ELSE IF spec.method \in BodyMethods
    THEN [method |-> spec.method, body |-> InjectBody(spec.body, ws), query |-> spec.query]
    ELSE [method |-> spec.method, body |-> spec.body, query |-> InjectQuery(spec.query, ws)]

\* 2xx
IsSuccess(resp) == resp.status >= 200 /\ resp.status < 300

\* transport failure, 5xx, 429
Retryable(resp) == resp.status = 0 \/ resp.status >= 500 \/ resp.status = 429

\* retries once more than the attempt limit allows
ShouldRetry_OffByOne(resp, attempt, maxAttempts) == Retryable(resp) /\ attempt <= maxAttempts

\* after attempt number `attempt` ended in resp: is there another attempt
ShouldRetry(resp, attempt, maxAttempts) == Retryable(resp) /\ attempt < maxAttempts

RECURSIVE Pow(_, _)
Pow(b, e) == IF e = 0 THEN 1 ELSE b * Pow(b, e - 1)

\* baseDelay * backoffMultiplier^(attempt-1)
Backoff(cfg, attempt) == cfg.baseDelay * Pow(cfg.backoffMultiplier, attempt - 1)

\* backs off without looking at the retry-after hint
RetryDelay_IgnoreHint(cfg, attempt, resp) == Backoff(cfg, attempt)

\* the delay before the retry that follows attempt number `attempt`: the backoff,
\* and no less than the retry-after hint of a 429
RetryDelay(cfg, attempt, resp) ==
    IF resp.status = 429 /\ resp.retryAfter > Backoff(cfg, attempt)
    THEN resp.retryAfter
    ELSE Backoff(cfg, attempt)

\* the typed error a failed response is mapped to
ErrorFor(resp) ==
    CASE resp.status = 401 -> "AuthenticationError"
      [] resp.status = 404 -> "NotFoundError"
      [] resp.status \in {400, 422} -> "ValidationError"
      [] resp.status = 403 /\ resp.policy -> "PolicyViolationError"
      [] resp.status = 429 -> "RateLimitError"
      [] OTHER -> "AnchorError"

NoResult == [ok |-> FALSE, error |-> "", status |-> 0, retryAfter |-> 0]
Success(resp) == [ok |-> TRUE, error |-> "", status |-> resp.status, retryAfter |-> 0]
Failure(resp) ==
    [ok |-> FALSE, error |-> ErrorFor(resp), status |-> resp.status, retryAfter |-> resp.retryAfter]

NoRequest == [method |-> "GET", body |-> NoBody, query |-> EmptyObj, workspaceOverride |-> Absent]

\* the request layer before any call, for each way a client can be configured
SInit ==
    /\ client \in [ defaultWorkspaceId : DefaultWorkspaces,
                     maxAttempts : 1..MaxAttemptsCeil,
                     baseDelay : BaseDelays,
                     backoffMultiplier : Multipliers ]
    /\ pc = "idle"
    /\ req = NoRequest
    /\ sent = <<>>
    /\ responses = <<>>
    /\ delays = <<>>
    /\ warnings = 0
    /\ result = NoResult

\* send(spec) is entered: the workspace id is resolved, and a missing one is warned about
Call ==
    /\ pc \in {"idle", "done"}
    /\ \E m \in Methods, b \in CallerBodies, q \in CallerQueries, o \in Overrides :
          /\ req' = [method |-> m, body |-> b, query |-> q, workspaceOverride |-> o]
          /\ warnings' = IF Resolve(o, client.defaultWorkspaceId) = Absent THEN 1 ELSE 0
    /\ pc' = "attempt"
    /\ sent' = <<>>
    /\ responses' = <<>>
    /\ delays' = <<>>
    /\ result' = NoResult
    /\ UNCHANGED client
    /\ UNCHANGED pvars

\* one attempt: the request is transmitted and its outcome decides what follows
Attempt ==
    /\ pc = "attempt"
    /\ \E resp \in Responses :
          LET ws == Resolve(req.workspaceOverride, client.defaultWorkspaceId)
              attempt == Len(sent) + 1
          IN  /\ sent' = Append(sent, Outgoing(req, ws))
              /\ responses' = Append(responses, resp)
              /\ IF IsSuccess(resp)
                    THEN pc' = "done" /\ result' = Success(resp)
                    ELSE IF ShouldRetry(resp, attempt, client.maxAttempts)
                    THEN pc' = "backoff" /\ result' = result
                    ELSE pc' = "done" /\ result' = Failure(resp)
    /\ UNCHANGED <<client, req, delays, warnings>>
    /\ UNCHANGED pvars

\* the delay before a retry
Sleep ==
    /\ pc = "backoff"
    /\ delays' = Append(delays, RetryDelay(client, Len(sent), responses[Len(responses)]))
    /\ pc' = "attempt"
    /\ UNCHANGED <<client, req, sent, responses, warnings, result>>
    /\ UNCHANGED pvars

SNext ==
    \/ Call
    \/ Attempt
    \/ Sleep

\* the request layer while only DefaultPolicyPack is exercised
SIdle ==
    /\ client = [defaultWorkspaceId |-> Absent, maxAttempts |-> 1, baseDelay |-> 1, backoffMultiplier |-> 2]
    /\ pc = "idle"
    /\ req = NoRequest
    /\ sent = <<>>
    /\ responses = <<>>
    /\ delays = <<>>
    /\ warnings = 0
    /\ result = NoResult

(***************************************************************************)
(* Specifications: Spec exercises DefaultPolicyPack, SpecSend the request  *)
(* layer.                                                                  *)
(***************************************************************************)
Init == PInit /\ SIdle
Next == PNext
Spec == Init /\ [][Next]_vars

SendInit == PInit /\ SInit
SendNext == SNext
SpecSend == SendInit /\ [][SendNext]_vars

(***************************************************************************)
(* Properties of DefaultPolicyPack.  A call record r holds the values as   *)
(* of the return of one getConfig call: r.cfg is this.config, r.out the    *)
(* result, r.built the config as it was when the pack was constructed.     *)
(***************************************************************************)
PolicyKeys == {"allowed_domains", "max_query_size", "require_approval_for", "block_pii", "block_secrets"}

\* the output key a config field is written to
KeyOf(f) ==
    CASE f = "allowedDomains" -> "allowed_domains"
      [] f = "maxQuerySize" -> "max_query_size"
      [] f = "requireApprovalFor" -> "require_approval_for"
      [] f = "blockPii" -> "block_pii"
      [] OTHER -> "block_secrets"

IsList(v) == "list" \in DOMAIN v

\* key k is present in both objects with the same value, or absent from both
SameKey(a, b, k) ==
    /\ (k \in DOMAIN a) <=> (k \in DOMAIN b)
    /\ (k \in DOMAIN a) => a[k] = b[k]

\* the documented result for a pack without overrides
DocumentedDefaults ==
    [policies |->
        [ max_query_size       |-> Num(1000),
          require_approval_for |-> List(<<"delete", "update", "export">>),
          block_pii            |-> Bool(TRUE),
          block_secrets        |-> Bool(TRUE) ]]

\* the documented tri-state rule for one field: null omits, unset defaults, else verbatim
TriState(r, f, default) ==
    LET k == KeyOf(f)
        p == r.out.policies
    IN  /\ (r.cfg[f] = Null) => k \notin DOMAIN p
        /\ (r.cfg[f] = Undefined) => (k \in DOMAIN p /\ p[k] = default)
        /\ (r.cfg[f] \notin {Null, Undefined}) => (k \in DOMAIN p /\ p[k] = r.cfg[f])

\* C1: for maxQuerySize and requireApprovalFor, an explicit null omits the key,
\* an unset override yields the default (1000, resp. ["delete","update","export"]),
\* and any other value is passed through unchanged.
C1_TriState ==
    \A r \in calls :
        /\ TriState(r, "maxQuerySize", Num(1000))
        /\ TriState(r, "requireApprovalFor", List(<<"delete", "update", "export">>))

\* C2: getConfig of a pack built with no overrides returns exactly the four
\* documented default keys and no allowed_domains key.
C2_Defaults ==
    \A r \in calls :
        (r.built = EmptyConfig /\ r.cfg = EmptyConfig) => (r.out = DocumentedDefaults)

\* C3: allowed_domains is present exactly when the allowedDomains override is a
\* list, and then equals that list (the empty list included); there is no default.
C3_AllowedDomains ==
    \A r \in calls :
        LET p == r.out.policies
        IN  /\ ("allowed_domains" \in DOMAIN p) <=> IsList(r.cfg.allowedDomains)
            /\ ("allowed_domains" \in DOMAIN p) => p.allowed_domains = r.cfg.allowedDomains

\* a getConfig call returned allowed_domains = [] for the override []
C3_Witness ==
    \E r \in calls :
        /\ r.cfg.allowedDomains = List(<<>>)
        /\ "allowed_domains" \in DOMAIN r.out.policies
        /\ r.out.policies.allowed_domains = List(<<>>)

\* config c overrides field f and nothing else
SingleOverride(c, f) ==
    /\ c[f] # Undefined
    /\ \A g \in ConfigFields \ {f} : c[g] = Undefined

\* C4: a config that overrides exactly one field changes only that field's key:
\* every other key is present or absent and valued as in the output for the empty
\* config, and a blockPii / blockSecrets override is the value of its key.
C4_Frame ==
    \A r \in calls : \A f \in ConfigFields :
        SingleOverride(r.cfg, f) =>
            /\ \A k \in PolicyKeys \ {KeyOf(f)} : SameKey(r.out.policies, r.base.policies, k)
            /\ (f \in {"blockPii", "blockSecrets"}) =>
                   (KeyOf(f) \in DOMAIN r.out.policies /\ r.out.policies[KeyOf(f)] = r.cfg[f])

\* a getConfig call on {blockSecrets: false} returned block_secrets = false
C4_Witness ==
    \E r \in calls :
        /\ SingleOverride(r.cfg, "blockSecrets")
        /\ r.cfg.blockSecrets = Bool(FALSE)
        /\ r.out.policies.block_secrets = Bool(FALSE)
        /\ r.out.policies.block_pii = Bool(TRUE)

\* C5: getConfig is pure and deterministic: a getConfig step changes neither a
\* config object nor an array (the module default included), and any two calls
\* made with equal configs return equal results.
C5_PureDeterministic ==
    /\ [][(calls' # calls) => (heap' = heap /\ configs' = configs)]_vars
    /\ [](\A a, b \in calls : (a.cfg = b.cfg) => (a.out = b.out))

\* the result the documentation determines for the config value c
Documented(c) ==
    LET p0 == EmptyObj
        p1 == IF IsList(c.allowedDomains) THEN Put(p0, "allowed_domains", c.allowedDomains) ELSE p0
        p2 == IF c.maxQuerySize = Null THEN p1
              ELSE Put(p1, "max_query_size",
                       IF c.maxQuerySize = Undefined THEN Num(1000) ELSE c.maxQuerySize)
        p3 == IF c.requireApprovalFor = Null THEN p2
              ELSE Put(p2, "require_approval_for",
                       IF c.requireApprovalFor = Undefined
                          THEN List(<<"delete", "update", "export">>)
                          ELSE c.requireApprovalFor)
        p4 == Put(p3, "block_pii", IF c.blockPii = Undefined THEN Bool(TRUE) ELSE c.blockPii)
        p5 == Put(p4, "block_secrets", IF c.blockSecrets = Undefined THEN Bool(TRUE) ELSE c.blockSecrets)
    IN  [policies |-> p5]

\* C10: whatever the caller did to earlier results or to the config object after
\* construction, getConfig returns the output determined by the config as it was
\* at construction (the documented defaults for a pack without overrides).
C10_Isolated ==
    \A r \in calls : r.out = Documented(r.built)

(***************************************************************************)
(* Properties of the request layer, over the call in progress or just      *)
(* finished: sent[i], responses[i] belong to attempt i, delays[i] is the    *)
(* delay slept after attempt i.                                            *)
(***************************************************************************)
\* the outcomes the documentation calls retryable: transport failure, 5xx, 429
DocRetryable(resp) ==
    resp.status = 0 \/ resp.status \in 500..599 \/ resp.status = 429

\* attempt i was followed by a retry delay or by another attempt
Followed(i) == i < Len(sent) \/ (i = Len(sent) /\ pc = "backoff")

\* C6: a call makes at most maxAttempts attempts; an attempt is followed by another
\* only if it ended in a retryable outcome and fewer than maxAttempts were made; a
\* 401 ends the call at the first attempt, without delay, with AuthenticationError;
\* a 500 followed by a 200 gives exactly one retry delay and a successful result.
C6_Retry ==
    /\ Len(sent) <= client.maxAttempts
    /\ Len(responses) = Len(sent)
    /\ \A i \in 1..Len(sent) :
          /\ Followed(i) => (DocRetryable(responses[i]) /\ i < client.maxAttempts)
          /\ (responses[i].status \in (400..499) \ {429}) =>
                (i = Len(sent) /\ pc = "done" /\ Len(delays) = i - 1 /\ ~result.ok)
    /\ (Len(responses) >= 1 /\ responses[1].status = 401) =>
          (pc = "done" /\ Len(sent) = 1 /\ delays = <<>> /\ result.error = "AuthenticationError")
    /\ (Len(responses) = 2 /\ responses[1].status = 500 /\ responses[2].status = 200) =>
          (pc = "done" /\ Len(delays) = 1 /\ result.ok)

\* a call answered 500 and then 200 has finished successfully after one delay
C6_Witness ==
    /\ pc = "done"
    /\ Len(responses) = 2
    /\ responses[1].status = 500
    /\ responses[2].status = 200
    /\ Len(delays) = 1
    /\ result.ok

\* the workspace id the documentation resolves for the call in progress
Expected == IF req.workspaceOverride # Absent THEN req.workspaceOverride ELSE client.defaultWorkspaceId

HasField(body, k) == body.present /\ k \in DOMAIN body.fields

\* request s carries workspace id ws the way its verb requires, and nowhere else
Carries(s, ws) ==
    IF s.method \in BodyMethods
    THEN HasField(s.body, "workspaceId") /\ s.body.fields.workspaceId = ws /\ s.query = req.query
    ELSE "workspaceId" \in DOMAIN s.query /\ s.query.workspaceId = ws /\ s.body = req.body

Unscoped == pc # "idle" /\ req.workspaceOverride = Absent /\ client.defaultWorkspaceId = Absent

\* the outcome of a finished call is that of its last response
OutcomeFromResponse ==
    (pc = "done") => (result.ok <=> responses[Len(responses)].status \in 200..299)

AllRateLimited ==
    /\ Len(responses) >= 1
    /\ \A i \in 1..Len(responses) : responses[i].status = 429 /\ responses[i].retryAfter > 0

====
